---- MODULE Spec2Model ----
(***************************************************************************)
(* Embedding cache and scoring core of the OpenCLIP service                *)
(* (src/services/openclip/production_server.py; clip_server.py carries the *)
(* same cache and scoring code).                                           *)
(*                                                                         *)
(* Numbers.  An embedding component is a float32.  The model writes the    *)
(* component c/5 as the integer c, so <<3, 4>> is the unit vector          *)
(* (0.6, 0.8); a dot product of two such vectors is an integer number of   *)
(* 25ths.  Sums, means and the 0.7/0.3 blend are kept as exact fractions   *)
(* [num, den]; floating-point rounding of those is not modelled.           *)
(*                                                                         *)
(* Scheduling.  A request advances by one step per awaited call            *)
(* (_get_from_cache, the model's encode, _store_in_cache); the code        *)
(* between two awaited calls runs inside the step that precedes it.        *)
(***************************************************************************)
EXTENDS Integers, Sequences, FiniteSets, TLC

VARIABLES
    cache_enabled,   \* self.cache_enabled
    redis_client,    \* TRUE iff self.redis_client is not None
    redis,           \* content of the Redis store: key -> [bytes, expire_at]
    memory_cache,    \* self.memory_cache: key -> [data, timestamp]
    now,             \* time.time()
    request_count,   \* self.request_count
    started,         \* requests received so far
    req,             \* per request slot: the handler's locals and position
    lastOp           \* the cache operation of the step just taken, if it
                     \* was one, with the state it started from

vars == <<cache_enabled, redis_client, redis, memory_cache, now,
          request_count, started, req, lastOp>>

----------------------------------------------------------------------------
\* Bounds of the model

MaxTime == 2
MaxStarted == 3
MaxChecks == 1
MaxRefs == 2
MaxBatches == 2
MaxBatch == 2
MaxQueries == 1
MaxCandidates == 3
Slots == 1..2

\* SearchRequest.top_k: Field(5, ge=1, le=100)
top_k_ge == 1
top_k_le == 100

\* CACHE_TTL and MAX_MEMORY_CACHE_SIZE are read from the environment
\* (defaults 3600 and 1000); the model runs them scaled down.
cache_ttl == 2
max_memory_cache_size == 1

----------------------------------------------------------------------------
\* Values

NoKey == ""      \* cache_key is None (or the empty string, equally falsy)
NoVec == <<>>    \* None where an embedding is expected
NoBytes == <<>>  \* None or b"" from Redis: "if cached" takes both as a miss

Images == {"a", "b"}
PostedImages == {"a"}   \* the images sent to /embed/image
Texts == {"a"}           \* the same string can be sent as text and as image
CacheKeys == {NoKey, "ck"}
MalformedImages == {"x"}   \* strings that are no base64 of an image file
BatchImages == Images \cup MalformedImages
BatchTexts == {"a", "b"}
BatchTypes == {"text", "image", "video"}

\* The embeddings posted to /similarity and /search (lists of floats): two
\* parallel vectors, an opposite one, a zero vector, a vector of another
\* dimension and the empty list among them
PostedVectors ==
    {<<1, 0>>, <<0, 1>>, <<-1, 1>>, <<0, 0>>, <<1, 0, 0>>, <<>>}
TopKs == {0, 1, 2, 100, 101}

Components == {0, 3, 4, 5}

\* hashlib.md5(data).hexdigest() for the contents of the model
MD5Hex(data) ==
    CASE data = "a" -> "0cc175b9c0f1b6a831c399e269772661"
      [] data = "b" -> "92eb5ffee6ae2fec3ad71c777531578f"
      [] data = "x" -> "9dd4e461268c8034f5c8564e155c67a6"

\* A key that also depends on how many requests the service has encoded
_get_cache_key_counting(data, prefix) ==
    prefix \o ":" \o MD5Hex(IF request_count = 0 THEN data ELSE "x")

\* The key built from the digest alone, without the prefix
_get_cache_key_noprefix(data, prefix) == MD5Hex(data)

_get_cache_key(data, prefix) == prefix \o ":" \o MD5Hex(data)

Keys == {_get_cache_key(c, "image") : c \in Images}
        \cup {_get_cache_key(c, "text") : c \in Texts}
        \cup (CacheKeys \ {NoKey})

\* The vector the CLIP model returns for a content (unit length, float32)
Oracle(kind, content) ==
    CASE kind = "image" /\ content = "a" -> <<3, 4>>
      [] kind = "image" /\ content = "b" -> <<4, 3>>
      [] kind = "text" /\ content = "a" -> <<5, 0>>
      [] kind = "text" /\ content = "b" -> <<0, 5>>

Vectors == {<<3, 4>>, <<4, 3>>, <<5, 0>>, <<0, 5>>}

\* The four little-endian bytes of the float32 c/5
F32Bytes(c) ==
    CASE c = 0 -> <<0, 0, 0, 0>>
      [] c = 3 -> <<154, 153, 25, 63>>
      [] c = 4 -> <<205, 204, 76, 63>>
      [] c = 5 -> <<0, 0, 128, 63>>

RECURSIVE tobytes(_)
tobytes(v) ==
    IF v = <<>> THEN <<>> ELSE F32Bytes(Head(v)) \o tobytes(Tail(v))

F32Value(b) == CHOOSE c \in Components : F32Bytes(c) = b

\* np.frombuffer read with its default dtype, float64: eight bytes a component
frombuffer_float64(bytes) ==
    [i \in 1..(Len(bytes) \div 8) |->
        F32Value(SubSeq(bytes, 8 * i - 7, 8 * i - 4))]

\* np.frombuffer(cached, dtype=np.float32)
frombuffer(bytes) ==
    [i \in 1..(Len(bytes) \div 4) |->
        F32Value(SubSeq(bytes, 4 * i - 3, 4 * i))]

----------------------------------------------------------------------------
\* The Redis store, as the client sees it

\* redis_client.get(key): the value, or None once the key has expired
RedisGet(key) ==
    IF key \in DOMAIN redis /\ now < redis[key].expire_at
    THEN redis[key].bytes
    ELSE NoBytes

\* redis_client.setex(key, ttl, value)
RedisSetex(key, ttl, value) ==
    [k \in (DOMAIN redis) \cup {key} |->
        IF k = key THEN [bytes |-> value, expire_at |-> now + ttl]
        ELSE redis[k]]

----------------------------------------------------------------------------
\* ProductionCLIPService._get_from_cache and _store_in_cache
\* redis_fails: the Redis call of this operation raises

MemoryWithout(key) ==
    [k \in (DOMAIN memory_cache) \ {key} |-> memory_cache[k]]

MemoryWith(key, embedding) ==
    [k \in (DOMAIN memory_cache) \cup {key} |->
        IF k = key THEN [data |-> embedding, timestamp |-> now]
        ELSE memory_cache[k]]

\* _get_from_cache with the expiry test written <= instead of <
_get_from_cache_le(cache_key, redis_fails) ==
    IF ~cache_enabled
    THEN [result |-> NoVec, memory |-> memory_cache, raised |-> FALSE]
    ELSE IF redis_client /\ redis_fails
    THEN [result |-> NoVec, memory |-> memory_cache, raised |-> FALSE]
    ELSE IF redis_client /\ RedisGet(cache_key) # NoBytes
    THEN [result |-> frombuffer(RedisGet(cache_key)),
          memory |-> memory_cache, raised |-> FALSE]
    ELSE IF cache_key \in DOMAIN memory_cache
    THEN IF now - memory_cache[cache_key].timestamp <= cache_ttl
         THEN [result |-> memory_cache[cache_key].data,
               memory |-> memory_cache, raised |-> FALSE]
         ELSE [result |-> NoVec, memory |-> MemoryWithout(cache_key),
               raised |-> FALSE]
    ELSE [result |-> NoVec, memory |-> memory_cache, raised |-> FALSE]

\* _get_from_cache looking in the memory cache before Redis
_get_from_cache_memory_first(cache_key, redis_fails) ==
    IF ~cache_enabled
    THEN [result |-> NoVec, memory |-> memory_cache, raised |-> FALSE]
    ELSE IF redis_client /\ redis_fails
    THEN [result |-> NoVec, memory |-> memory_cache, raised |-> FALSE]
    ELSE IF cache_key \in DOMAIN memory_cache
            /\ now - memory_cache[cache_key].timestamp < cache_ttl
    THEN [result |-> memory_cache[cache_key].data,
          memory |-> memory_cache, raised |-> FALSE]
    ELSE IF redis_client /\ RedisGet(cache_key) # NoBytes
    THEN [result |-> frombuffer(RedisGet(cache_key)),
          memory |-> memory_cache, raised |-> FALSE]
    ELSE [result |-> NoVec,
          memory |-> IF cache_key \in DOMAIN memory_cache
                     THEN MemoryWithout(cache_key) ELSE memory_cache,
          raised |-> FALSE]

\* _get_from_cache with the try/except around the Redis call alone: after
\* a Redis error the memory cache is still looked up
_get_from_cache_fallthrough(cache_key, redis_fails) ==
    IF ~cache_enabled
    THEN [result |-> NoVec, memory |-> memory_cache, raised |-> FALSE]
    ELSE IF redis_client /\ ~redis_fails /\ RedisGet(cache_key) # NoBytes
    THEN [result |-> frombuffer(RedisGet(cache_key)),
          memory |-> memory_cache, raised |-> FALSE]
    ELSE IF cache_key \in DOMAIN memory_cache
    THEN IF now - memory_cache[cache_key].timestamp < cache_ttl
         THEN [result |-> memory_cache[cache_key].data,
               memory |-> memory_cache, raised |-> FALSE]
         ELSE [result |-> NoVec, memory |-> MemoryWithout(cache_key),
               raised |-> FALSE]
    ELSE [result |-> NoVec, memory |-> memory_cache, raised |-> FALSE]

\* The value returned (NoVec for None), the memory cache left behind, and
\* whether an exception leaves the method
_get_from_cache(cache_key, redis_fails) ==
    IF ~cache_enabled
    THEN [result |-> NoVec, memory |-> memory_cache, raised |-> FALSE]
    ELSE IF redis_client /\ redis_fails
    THEN [result |-> NoVec, memory |-> memory_cache, raised |-> FALSE]
    ELSE IF redis_client /\ RedisGet(cache_key) # NoBytes
    THEN [result |-> frombuffer(RedisGet(cache_key)),
          memory |-> memory_cache, raised |-> FALSE]
    ELSE IF cache_key \in DOMAIN memory_cache
    THEN IF now - memory_cache[cache_key].timestamp < cache_ttl
         THEN [result |-> memory_cache[cache_key].data,
               memory |-> memory_cache, raised |-> FALSE]
         ELSE [result |-> NoVec, memory |-> MemoryWithout(cache_key),
               raised |-> FALSE]
    ELSE [result |-> NoVec, memory |-> memory_cache, raised |-> FALSE]

\* _store_in_cache with the size test written <= instead of <
_store_in_cache_le(cache_key, embedding, redis_fails) ==
    IF ~cache_enabled
    THEN [redis |-> redis, memory |-> memory_cache, raised |-> FALSE]
    ELSE IF redis_client /\ redis_fails
    THEN [redis |-> redis, memory |-> memory_cache, raised |-> FALSE]
    ELSE [redis |-> IF redis_client
                    THEN RedisSetex(cache_key, cache_ttl, tobytes(embedding))
                    ELSE redis,
          memory |-> IF Cardinality(DOMAIN memory_cache) <= max_memory_cache_size
                     THEN MemoryWith(cache_key, embedding)
                     ELSE memory_cache,
          raised |-> FALSE]

\* _store_in_cache without its try/except
_store_in_cache_unguarded(cache_key, embedding, redis_fails) ==
    IF ~cache_enabled
    THEN [redis |-> redis, memory |-> memory_cache, raised |-> FALSE]
    ELSE IF redis_client /\ redis_fails
    THEN [redis |-> redis, memory |-> memory_cache, raised |-> TRUE]
    ELSE [redis |-> IF redis_client
                    THEN RedisSetex(cache_key, cache_ttl, tobytes(embedding))
                    ELSE redis,
          memory |-> IF Cardinality(DOMAIN memory_cache) < max_memory_cache_size
                     THEN MemoryWith(cache_key, embedding)
                     ELSE memory_cache,
          raised |-> FALSE]

\* _store_in_cache without the size limit of the memory cache
_store_in_cache_unbounded(cache_key, embedding, redis_fails) ==
    IF ~cache_enabled
    THEN [redis |-> redis, memory |-> memory_cache, raised |-> FALSE]
    ELSE IF redis_client /\ redis_fails
    THEN [redis |-> redis, memory |-> memory_cache, raised |-> FALSE]
    ELSE [redis |-> IF redis_client
                    THEN RedisSetex(cache_key, cache_ttl, tobytes(embedding))
                    ELSE redis,
          memory |-> MemoryWith(cache_key, embedding),
          raised |-> FALSE]

\* The two tiers left behind, and whether an exception leaves the method
_store_in_cache(cache_key, embedding, redis_fails) ==
    IF ~cache_enabled
    THEN [redis |-> redis, memory |-> memory_cache, raised |-> FALSE]
    ELSE IF redis_client /\ redis_fails
    THEN [redis |-> redis, memory |-> memory_cache, raised |-> FALSE]
    ELSE [redis |-> IF redis_client
                    THEN RedisSetex(cache_key, cache_ttl, tobytes(embedding))
                    ELSE redis,
          memory |-> IF Cardinality(DOMAIN memory_cache) < max_memory_cache_size
                     THEN MemoryWith(cache_key, embedding)
                     ELSE memory_cache,
          raised |-> FALSE]

\* The outcomes a Redis call of this service can have
RedisOutcomes == IF redis_client THEN {FALSE, TRUE} ELSE {FALSE}

----------------------------------------------------------------------------
\* Vector arithmetic and the consistency verdict

RECURSIVE Sum(_)
RECURSIVE InsertRanked_before_equal(_, _)
RECURSIVE InsertRanked(_, _)
RECURSIVE SortBySimilarity(_)
Sum(xs) == IF xs = <<>> THEN 0 ELSE Head(xs) + Sum(Tail(xs))

\* np.dot(u, v), in 25ths
Dot(u, v) == Sum([i \in 1..Len(u) |-> u[i] * v[i]])

\* np.linalg.norm(v) squared
NormSq(v) == Sum([i \in 1..Len(v) |-> v[i] * v[i]])

\* A Python float: nan, or the number dot / sqrt(nn) with nn > 0
NaN == [nan |-> TRUE, dot |-> 0, nn |-> 1]
Float(dot, nn) == [nan |-> FALSE, dot |-> dot, nn |-> nn]

\* x < y on floats; every comparison with nan is False
FloatLess(x, y) ==
    /\ ~x.nan /\ ~y.nan
    /\ IF x.dot < 0 /\ y.dot >= 0 THEN TRUE
       ELSE IF x.dot >= 0 /\ y.dot < 0 THEN FALSE
       ELSE IF x.dot >= 0
       THEN x.dot * x.dot * y.nn < y.dot * y.dot * x.nn
       ELSE x.dot * x.dot * y.nn > y.dot * y.dot * x.nn

\* The similarity computed on the common prefix of the two vectors
CosineSimilarity_truncating(a, b) ==
    LET n == IF Len(a) < Len(b) THEN Len(a) ELSE Len(b)
        a1 == SubSeq(a, 1, n)
        b1 == SubSeq(b, 1, n)
    IN  [raised |-> FALSE,
         value |-> IF n = 0 THEN Float(0, 1)
                   ELSE IF NormSq(a1) = 0 \/ NormSq(b1) = 0 THEN NaN
                   ELSE Float(Dot(a1, b1), NormSq(a1) * NormSq(b1))]

\* a / np.linalg.norm(a), b / np.linalg.norm(b), float(np.dot(a, b)):
\* dividing by a zero norm gives nan components without raising (an empty
\* array stays empty); np.dot raises ValueError when the lengths differ
CosineSimilarity(a, b) ==
    IF Len(a) # Len(b)
    THEN [raised |-> TRUE, value |-> NaN]
    ELSE [raised |-> FALSE,
          value |-> IF a = <<>> THEN Float(0, 1)
                    ELSE IF NormSq(a) = 0 \/ NormSq(b) = 0 THEN NaN
                    ELSE Float(Dot(a, b), NormSq(a) * NormSq(b))]

\* A row placed before the rows it equals
InsertRanked_before_equal(x, s) ==
    IF s = <<>> THEN <<x>>
    ELSE IF ~FloatLess(x.similarity, Head(s).similarity) THEN <<x>> \o s
    ELSE <<Head(s)>> \o InsertRanked_before_equal(x, Tail(s))

\* x placed in a list sorted by descending similarity, after the rows that
\* are not smaller
InsertRanked(x, s) ==
    IF s = <<>> THEN <<x>>
    ELSE IF FloatLess(Head(s).similarity, x.similarity) THEN <<x>> \o s
    ELSE <<Head(s)>> \o InsertRanked(x, Tail(s))

\* similarities.sort(key=lambda x: x['similarity'], reverse=True): a stable
\* sort, rows of equal similarity keep their order
SortBySimilarity(rows) ==
    IF rows = <<>> THEN <<>>
    ELSE InsertRanked(rows[Len(rows)],
                      SortBySimilarity(SubSeq(rows, 1, Len(rows) - 1)))

\* What the sort can leave: with a nan among the keys the comparisons are
\* inconsistent and the order is whatever the algorithm ends with
SortOutcomes(rows) ==
    IF \E n \in 1..Len(rows) : rows[n].similarity.nan
    THEN {[n \in 1..Len(rows) |-> rows[p[n]]] :
             p \in Permutations(1..Len(rows))}
    ELSE {SortBySimilarity(rows)}

\* A fraction with a positive denominator
Frac(n, d) == [num |-> n, den |-> d]

Thresholds == {Frac(0, 1), Frac(17, 20), Frac(24, 25)}

\* np.mean(image_similarities) without the guard for the empty list: the
\* mean of nothing is 0/0
AvgImageSimilarity_unguarded(image_similarities) ==
    Frac(Sum(image_similarities), 25 * Len(image_similarities))

\* np.mean(image_similarities) if image_similarities else 0
AvgImageSimilarity(image_similarities) ==
    IF image_similarities # <<>>
    THEN Frac(Sum(image_similarities), 25 * Len(image_similarities))
    ELSE Frac(0, 1)

\* The blend with its two weights exchanged
ConsistencyScore_swapped(image_similarities, text_similarity) ==
    LET avg == AvgImageSimilarity(image_similarities)
    IN  IF text_similarity # <<>>
        THEN Frac(3 * 25 * avg.num + 7 * text_similarity[1] * avg.den,
                  10 * 25 * avg.den)
        ELSE avg

\* text_similarity is <<>> for None, else <<s>> with s in 25ths
ConsistencyScore(image_similarities, text_similarity) ==
    LET avg == AvgImageSimilarity(image_similarities)
    IN  IF text_similarity # <<>>
        THEN Frac(7 * 25 * avg.num + 3 * text_similarity[1] * avg.den,
                  10 * 25 * avg.den)
        ELSE avg

\* The decision taken with > instead of >=
Passed_strict(score, threshold) ==
    score.num * threshold.den > threshold.num * score.den

\* consistency_score >= request.threshold
Passed(score, threshold) ==
    score.num * threshold.den >= threshold.num * score.den

NoResp ==
    [status |-> 0, raised |-> 0, embedding |-> NoVec,
     consistency_score |-> Frac(0, 1), image_similarities |-> <<>>,
     text_similarity |-> <<>>, passed |-> FALSE, threshold |-> Frac(0, 1),
     embeddings |-> <<>>, similarity |-> <<>>, results |-> <<>>]

\* The response of check_character_consistency once every embedding is in:
\* embs[1] is the generated image's, the text's comes last when there is one
ConsistencyVerdict(embs, has_text, threshold) ==
    LET gen == embs[1]
        n_refs == Len(embs) - 1 - (IF has_text THEN 1 ELSE 0)
        sims == [k \in 1..n_refs |-> Dot(gen, embs[k + 1])]
        tsim == IF has_text THEN <<Dot(gen, embs[Len(embs)])>> ELSE <<>>
        score == ConsistencyScore(sims, tsim)
    IN  [status |-> 200, raised |-> 0, embedding |-> gen,
         consistency_score |-> score, image_similarities |-> sims,
         text_similarity |-> tsim, passed |-> Passed(score, threshold),
         threshold |-> threshold]

----------------------------------------------------------------------------
\* Requests

IdleReq ==
    [op |-> "none", items |-> <<>>, i |-> 0, pc |-> "idle", key |-> NoKey,
     emb |-> NoVec, embs |-> <<>>, threshold |-> Frac(0, 1),
     top_k |-> 0, trace |-> <<>>, resp |-> NoResp]

Item(kind, content, cache_key) ==
    [kind |-> kind, content |-> content, cache_key |-> cache_key]

\* base64.b64decode and Image.open accept the item, and its size is not zero
Decodable(item) ==
    ~(item.kind = "image" /\ item.content \in MalformedImages)

\* encode_text going to the model without the cache lookup
EncodeTextEntry_nolookup(q, item) ==
    [q EXCEPT !.pc = "encode",
              !.key = IF item.cache_key # NoKey THEN item.cache_key
                      ELSE _get_cache_key(item.content, "text")]

\* encode_text up to its first awaited call (a single string)
EncodeTextEntry(q, item) ==
    IF cache_enabled
    THEN [q EXCEPT !.pc = "probe",
                   !.key = IF item.cache_key # NoKey THEN item.cache_key
                           ELSE _get_cache_key(item.content, "text")]
    ELSE [q EXCEPT !.pc = "encode", !.key = item.cache_key]

\* encode_image putting its namespace in front of the caller's key
EncodeImageEntry_prefixed(q, item) ==
    IF cache_enabled /\ item.cache_key # NoKey
    THEN [q EXCEPT !.pc = "probe", !.key = "image:" \o item.cache_key]
    ELSE IF cache_enabled
    THEN [q EXCEPT !.pc = "probe",
                   !.key = _get_cache_key(item.content, "image")]
    ELSE [q EXCEPT !.pc = "encode", !.key = item.cache_key]

\* encode_image up to its first awaited call (image_data is a str)
EncodeImageEntry(q, item) ==
    IF cache_enabled /\ item.cache_key # NoKey
    THEN [q EXCEPT !.pc = "probe", !.key = item.cache_key]
    ELSE IF cache_enabled
    THEN [q EXCEPT !.pc = "probe",
                   !.key = _get_cache_key(item.content, "image")]
    ELSE [q EXCEPT !.pc = "encode", !.key = item.cache_key]

\* The call of encode_text / encode_image for item q.i
BeginItem(q) ==
    IF q.items[q.i].kind = "text"
    THEN EncodeTextEntry(q, q.items[q.i])
    ELSE EncodeImageEntry(q, q.items[q.i])

\* The endpoint's return statement
Respond(q) ==
    IF q.op = "consistency"
    THEN [q EXCEPT !.pc = "done",
                   !.resp = ConsistencyVerdict(q.embs,
                               q.items[Len(q.items)].kind = "text",
                               q.threshold)]
    ELSE IF q.op \in {"batch_text", "batch_image"}
    THEN [q EXCEPT !.pc = "done",
                   !.resp = [NoResp EXCEPT !.status = 200,
                                           !.embeddings = q.embs]]
    ELSE [q EXCEPT !.pc = "done",
                   !.resp = [NoResp EXCEPT !.status = 200,
                                           !.embedding = q.embs[1]]]

\* The embedding put at the front of the results instead of the back
CompleteItem_prepend(q, embedding) ==
    LET q1 == [q EXCEPT !.embs = <<embedding>> \o q.embs, !.emb = NoVec]
    IN  IF q.i < Len(q.items)
        THEN BeginItem([q1 EXCEPT !.i = q.i + 1])
        ELSE Respond(q1)

\* encode_text / encode_image returns embedding to the endpoint, which goes
\* on to its next encode call or to its return statement
CompleteItem(q, embedding) ==
    LET q1 == [q EXCEPT !.embs = Append(q.embs, embedding), !.emb = NoVec]
    IN  IF q.i < Len(q.items)
        THEN BeginItem([q1 EXCEPT !.i = q.i + 1])
        ELSE Respond(q1)

\* A failed encode call passed over, the check going on with a zero vector
FailRequest_skip(q) == CompleteItem(q, <<0, 0>>)

\* The encode call raised: encode_text raises HTTPException(500),
\* encode_image HTTPException(400); every endpoint catches Exception and
\* answers 500
FailRequest(q) ==
    [q EXCEPT !.pc = "done", !.emb = NoVec,
              !.resp = [NoResp EXCEPT
                          !.status = 500,
                          !.raised = IF q.items[q.i].kind = "text"
                                     THEN 500 ELSE 400]]

\* An exception that leaves a cache method is not caught in encode_text or
\* encode_image; the endpoint's handler answers 500
CacheRaised(q) ==
    [q EXCEPT !.pc = "done", !.emb = NoVec,
              !.resp = [NoResp EXCEPT !.status = 500, !.raised = 500]]

\* BatchRequest.batch_type without its pattern
BatchTypeValid_any(batch_type) == TRUE

\* BatchRequest.batch_type: pattern "^(text|image)$"
BatchTypeValid(batch_type) == batch_type \in {"text", "image"}

\* The request body fails validation: the framework answers 422 and the
\* handler is not called
Rejected(q) ==
    [q EXCEPT !.pc = "done",
              !.resp = [NoResp EXCEPT !.status = 422, !.raised = 422]]

\* batch_encode up to its first awaited call; for another batch_type it
\* raises HTTPException(400), which embed_batch answers with 500
batch_encode(q, batch_type) ==
    IF batch_type = "text"
    THEN [q EXCEPT !.pc = "encode_texts", !.i = 1]
    ELSE IF batch_type = "image"
    THEN IF q.items = <<>> THEN Respond(q)
         ELSE BeginItem([q EXCEPT !.i = 1])
    ELSE [q EXCEPT !.pc = "done",
                   !.resp = [NoResp EXCEPT !.status = 500, !.raised = 400]]

\* The statuses a returned body can end with: json.dumps refuses nan when
\* called with allow_nan=False (500) and writes NaN otherwise (200)
ResponseStatuses(has_nan) == IF has_nan THEN {200, 500} ELSE {200}

\* The handler raised, or its return value could not be encoded
ServerError(q) ==
    [q EXCEPT !.pc = "done",
              !.resp = [NoResp EXCEPT !.status = 500, !.raised = 500]]

\* calculate_similarity: out is what the computation gave, status what the
\* encoding of the returned body ends with
SimilarityResponse(q, out, status) ==
    IF out.raised \/ status # 200 THEN ServerError(q)
    ELSE [q EXCEPT !.pc = "done",
                   !.resp = [NoResp EXCEPT !.status = 200,
                                           !.similarity = <<out.value>>]]

\* SearchRequest.top_k without its range
TopKValid_any(top_k) == TRUE

\* SearchRequest.top_k: ge=1, le=100
TopKValid(top_k) == top_k_ge <= top_k /\ top_k <= top_k_le

\* The rows search_similar collects, in candidate order (index from 0)
Rows(query, candidates) ==
    [n \in 1..Len(candidates) |->
        [index |-> n - 1,
         similarity |-> CosineSimilarity(query, candidates[n]).value]]

\* np.dot raises for one of the candidates
SearchRaises(query, candidates) ==
    \E n \in 1..Len(candidates) :
        CosineSimilarity(query, candidates[n]).raised

\* s[:k]
Slice(s, k) ==
    IF k >= 0 THEN SubSeq(s, 1, IF k < Len(s) THEN k ELSE Len(s))
    ELSE SubSeq(s, 1, IF Len(s) + k > 0 THEN Len(s) + k ELSE 0)

HasNaN(rows) == \E n \in 1..Len(rows) : rows[n].similarity.nan

\* search_similar: sorted is what the sort left, status what the encoding
\* of the returned body ends with
SearchResponse(q, sorted, status) ==
    IF ~TopKValid(q.top_k) THEN Rejected(q)
    ELSE IF SearchRaises(q.items[1], Tail(q.items)) \/ status # 200
    THEN ServerError(q)
    ELSE [q EXCEPT !.pc = "done",
                   !.resp = [NoResp EXCEPT !.status = 200,
                                           !.results = Slice(sorted, q.top_k)]]

\* What the request did, in order: for item i, "hit" or "miss" (the cache
\* lookup), "oracle", "oracle_fail" or "bad_input" (the model's encode, or
\* the decoding before it), "store"; failed tells whether the Redis call of
\* that step raised
Event(q, ev, failed) ==
    Append(q.trace, [i |-> q.i, ev |-> ev, failed |-> failed])

NoOp ==
    [op |-> "none", slot |-> 0, key |-> NoKey, vec |-> NoVec,
     redis_failed |-> FALSE, result |-> NoVec,
     mem_before |-> <<>>, redis_before |-> <<>>,
     prev |-> [op |-> "none", key |-> NoKey, vec |-> NoVec,
               redis_failed |-> FALSE, mem_len |-> 0]]

\* What a cache operation remembers of the one that ran just before it
Summary(o) ==
    [op |-> o.op, key |-> o.key, vec |-> o.vec,
     redis_failed |-> o.redis_failed,
     mem_len |-> Cardinality(DOMAIN o.mem_before)]

----------------------------------------------------------------------------
\* Actions

Init ==
    /\ cache_enabled \in BOOLEAN
    /\ redis_client \in (IF cache_enabled THEN BOOLEAN ELSE {FALSE})
    /\ redis = <<>>
    /\ memory_cache = <<>>
    /\ now = 0
    /\ request_count = 0
    /\ started = 0
    /\ req = [r \in Slots |-> IdleReq]
    /\ lastOp = NoOp

\* A request arrives and runs up to its first awaited call.  Slots are
\* interchangeable, so a request takes the lowest free one.
Free(r, limit) ==
    /\ req[r].pc = "idle"
    /\ \A r2 \in Slots : r2 < r => req[r2].pc # "idle"
    /\ started < limit

Accept(r, op, items, threshold) ==
    /\ started' = started + 1
    /\ req' = [req EXCEPT ![r] =
                 BeginItem([IdleReq EXCEPT !.op = op, !.items = items,
                                           !.i = 1, !.threshold = threshold])]
    /\ lastOp' = NoOp
    /\ UNCHANGED <<cache_enabled, redis_client, redis, memory_cache, now,
                   request_count>>

\* POST /embed/text with a single string
EmbedText(r) ==
    /\ Free(r, MaxStarted)
    /\ \E text \in Texts, ck \in CacheKeys :
        Accept(r, "embed_text", <<Item("text", text, ck)>>, Frac(0, 1))

\* POST /embed/image
EmbedImage(r) ==
    /\ Free(r, MaxStarted)
    /\ \E image \in PostedImages, ck \in CacheKeys :
        Accept(r, "embed_image", <<Item("image", image, ck)>>, Frac(0, 1))

RefSeqs == UNION {[1..n -> Images] : n \in 0..MaxRefs}

\* POST /character/consistency
CheckCharacterConsistency(r) ==
    /\ Free(r, MaxChecks)
    /\ \E gen \in Images, refs \in RefSeqs, text \in Texts \cup {""},
          threshold \in Thresholds :
        Accept(r, "consistency",
               <<Item("image", gen, NoKey)>>
               \o [k \in 1..Len(refs) |-> Item("image", refs[k], NoKey)]
               \o (IF text # "" THEN <<Item("text", text, NoKey)>> ELSE <<>>),
               threshold)

\* The items a batch of the given type can carry: strings, or dicts with a
\* cache_key for an image batch
BatchItemSeqs(batch_type) ==
    IF batch_type = "image"
    THEN UNION {[1..n -> {Item("image", c, ck) :
                             c \in BatchImages, ck \in CacheKeys}]
                : n \in 0..MaxBatch}
    ELSE UNION {[1..n -> {Item("text", c, NoKey) : c \in BatchTexts}]
                : n \in 1..MaxBatch}

\* POST /embed/batch
EmbedBatch(r) ==
    /\ Free(r, MaxBatches)
    /\ \E batch_type \in BatchTypes :
        \E items \in BatchItemSeqs(batch_type) :
            LET q == [IdleReq EXCEPT !.op = "batch_" \o batch_type,
                                     !.items = items]
            IN  req' = [req EXCEPT ![r] =
                          IF BatchTypeValid(batch_type)
                          THEN batch_encode(q, batch_type)
                          ELSE Rejected(q)]
    /\ started' = started + 1
    /\ lastOp' = NoOp
    /\ UNCHANGED <<cache_enabled, redis_client, redis, memory_cache, now,
                   request_count>>

\* POST /similarity
CalculateSimilarity(r) ==
    /\ Free(r, MaxQueries)
    /\ \E a \in PostedVectors, b \in PostedVectors :
        LET q == [IdleReq EXCEPT !.op = "similarity", !.items = <<a, b>>]
            out == CosineSimilarity(a, b)
        IN  \E status \in ResponseStatuses(~out.raised /\ out.value.nan) :
                req' = [req EXCEPT ![r] = SimilarityResponse(q, out, status)]
    /\ started' = started + 1
    /\ lastOp' = NoOp
    /\ UNCHANGED <<cache_enabled, redis_client, redis, memory_cache, now,
                   request_count>>

CandidateSeqs == UNION {[1..n -> PostedVectors] : n \in 0..MaxCandidates}

\* POST /search
SearchSimilar(r) ==
    /\ Free(r, MaxQueries)
    /\ \E query \in PostedVectors, top_k \in TopKs :
        \E candidates \in CandidateSeqs :
            LET q == [IdleReq EXCEPT !.op = "search",
                                     !.items = <<query>> \o candidates,
                                     !.top_k = top_k]
                rows == Rows(query, candidates)
            IN  \E sorted \in SortOutcomes(rows) :
                \E status \in ResponseStatuses(
                                  HasNaN(Slice(sorted, top_k))) :
                    req' = [req EXCEPT ![r] =
                              SearchResponse(q, sorted, status)]
    /\ started' = started + 1
    /\ lastOp' = NoOp
    /\ UNCHANGED <<cache_enabled, redis_client, redis, memory_cache, now,
                   request_count>>

\* await self._get_from_cache(cache_key)
Probe(r) ==
    /\ req[r].pc = "probe"
    /\ \E redis_fails \in RedisOutcomes :
        LET q == req[r]
            got == _get_from_cache(q.key, redis_fails)
        IN  /\ memory_cache' = got.memory
            /\ req' = [req EXCEPT ![r] =
                         IF got.raised
                         THEN CacheRaised([q EXCEPT
                                 !.trace = Event(q, "miss", redis_fails)])
                         ELSE IF got.result # NoVec
                         THEN CompleteItem([q EXCEPT
                                 !.trace = Event(q, "hit", redis_fails)],
                                 got.result)
                         ELSE [q EXCEPT !.pc = "encode",
                                 !.trace = Event(q, "miss", redis_fails)]]
            /\ lastOp' = [op |-> "get", slot |-> r, key |-> q.key,
                          vec |-> NoVec, redis_failed |-> redis_fails,
                          result |-> got.result,
                          mem_before |-> memory_cache,
                          redis_before |-> redis,
                          prev |-> Summary(lastOp)]
    /\ UNCHANGED <<cache_enabled, redis_client, redis, now, request_count,
                   started>>

\* The request counter incremented whether or not the encode succeeded
Encode_counting(r) ==
    /\ req[r].pc = "encode"
    /\ \E ok \in BOOLEAN :
        LET q == req[r]
            item == q.items[q.i]
            embedding == Oracle(item.kind, item.content)
            caches == cache_enabled /\ q.key # NoKey
        IN  /\ ok => Decodable(item)
            /\ req' = [req EXCEPT ![r] =
                         IF ~ok
                         THEN FailRequest([q EXCEPT
                                 !.trace = Event(q,
                                    IF Decodable(item) THEN "oracle_fail"
                                    ELSE "bad_input", FALSE)])
                         ELSE IF caches
                         THEN [q EXCEPT !.pc = "store", !.emb = embedding,
                                 !.trace = Event(q, "oracle", FALSE)]
                         ELSE CompleteItem([q EXCEPT
                                 !.trace = Event(q, "oracle", FALSE)],
                                 embedding)]
            /\ request_count' = IF ok /\ caches THEN request_count
                                ELSE request_count + 1
    /\ lastOp' = NoOp
    /\ UNCHANGED <<cache_enabled, redis_client, redis, memory_cache, now,
                   started>>

\* encode_image returning its embedding without waiting for the store
Encode_nostore(r) ==
    /\ req[r].pc = "encode"
    /\ \E ok \in BOOLEAN :
        LET q == req[r]
            item == q.items[q.i]
            embedding == Oracle(item.kind, item.content)
        IN  /\ ok => Decodable(item)
            /\ req' = [req EXCEPT ![r] =
                         IF ~ok
                         THEN FailRequest([q EXCEPT
                                 !.trace = Event(q,
                                    IF Decodable(item) THEN "oracle_fail"
                                    ELSE "bad_input", FALSE)])
                         ELSE CompleteItem([q EXCEPT
                                 !.trace = Event(q, "oracle", FALSE)],
                                 embedding)]
            /\ request_count' = IF ok THEN request_count + 1
                                ELSE request_count
    /\ lastOp' = NoOp
    /\ UNCHANGED <<cache_enabled, redis_client, redis, memory_cache, now,
                   started>>

\* Decoding the input and the model's forward pass (the Oracle), either of
\* which may raise
Encode(r) ==
    /\ req[r].pc = "encode"
    /\ \E ok \in BOOLEAN :
        LET q == req[r]
            item == q.items[q.i]
            embedding == Oracle(item.kind, item.content)
            caches == cache_enabled /\ q.key # NoKey
        IN  /\ ok => Decodable(item)
            /\ req' = [req EXCEPT ![r] =
                         IF ~ok
                         THEN FailRequest([q EXCEPT
                                 !.trace = Event(q,
                                    IF Decodable(item) THEN "oracle_fail"
                                    ELSE "bad_input", FALSE)])
                         ELSE IF caches
                         THEN [q EXCEPT !.pc = "store", !.emb = embedding,
                                 !.trace = Event(q, "oracle", FALSE)]
                         ELSE CompleteItem([q EXCEPT
                                 !.trace = Event(q, "oracle", FALSE)],
                                 embedding)]
            /\ request_count' = IF ok /\ ~caches THEN request_count + 1
                                ELSE request_count
    /\ lastOp' = NoOp
    /\ UNCHANGED <<cache_enabled, redis_client, redis, memory_cache, now,
                   started>>

\* await self._store_in_cache(cache_key, embedding); self.request_count += 1
Store(r) ==
    /\ req[r].pc = "store"
    /\ \E redis_fails \in RedisOutcomes :
        LET q == req[r]
            put == _store_in_cache(q.key, q.emb, redis_fails)
        IN  /\ redis' = put.redis
            /\ memory_cache' = put.memory
            /\ req' = [req EXCEPT ![r] =
                         IF put.raised
                         THEN CacheRaised([q EXCEPT
                                 !.trace = Event(q, "store", redis_fails)])
                         ELSE CompleteItem([q EXCEPT
                                 !.trace = Event(q, "store", redis_fails)],
                                 q.emb)]
            /\ request_count' = IF put.raised THEN request_count
                                ELSE request_count + 1
            /\ lastOp' = [op |-> "put", slot |-> r, key |-> q.key,
                          vec |-> q.emb, redis_failed |-> redis_fails,
                          result |-> NoVec,
                          mem_before |-> memory_cache,
                          redis_before |-> redis,
                          prev |-> Summary(lastOp)]
    /\ UNCHANGED <<cache_enabled, redis_client, now, started>>

\* encode_text on a list of texts looking its first text up in the cache,
\* as it does for a single string
EncodeTexts_lookup(r) ==
    /\ req[r].pc = "encode_texts"
    /\ \E ok \in BOOLEAN :
        LET q == req[r]
            got == _get_from_cache(
                       _get_cache_key(q.items[1].content, "text"), FALSE)
            embeddings == [k \in 1..Len(q.items) |->
                              IF k = 1 /\ got.result # NoVec THEN got.result
                              ELSE Oracle("text", q.items[k].content)]
            q1 == IF got.result # NoVec
                  THEN [q EXCEPT !.trace = Event(q, "hit", FALSE)]
                  ELSE q
        IN  /\ req' = [req EXCEPT ![r] =
                         IF ok
                         THEN Respond([q1 EXCEPT !.embs = embeddings,
                                 !.trace = Event(q1, "oracle", FALSE)])
                         ELSE FailRequest([q1 EXCEPT
                                 !.trace = Event(q1, "oracle_fail", FALSE)])]
            /\ request_count' = IF ok THEN request_count + 1
                                ELSE request_count
    /\ lastOp' = NoOp
    /\ UNCHANGED <<cache_enabled, redis_client, redis, memory_cache, now,
                   started>>

\* encode_text on a list of texts: one forward pass for all of them, no
\* cache lookup and no cache write
EncodeTexts(r) ==
    /\ req[r].pc = "encode_texts"
    /\ \E ok \in BOOLEAN :
        LET q == req[r]
            embeddings == [k \in 1..Len(q.items) |->
                              Oracle("text", q.items[k].content)]
        IN  /\ req' = [req EXCEPT ![r] =
                         IF ok
                         THEN Respond([q EXCEPT !.embs = embeddings,
                                 !.trace = Event(q, "oracle", FALSE)])
                         ELSE FailRequest([q EXCEPT
                                 !.trace = Event(q, "oracle_fail", FALSE)])]
            /\ request_count' = IF ok THEN request_count + 1
                                ELSE request_count
    /\ lastOp' = NoOp
    /\ UNCHANGED <<cache_enabled, redis_client, redis, memory_cache, now,
                   started>>

\* The response has been sent
Finish(r) ==
    /\ req[r].pc = "done"
    /\ req' = [req EXCEPT ![r] = IdleReq]
    /\ lastOp' = NoOp
    /\ UNCHANGED <<cache_enabled, redis_client, redis, memory_cache, now,
                   request_count, started>>

\* Time passes; Redis drops the keys whose time to live has run out
Tick ==
    /\ now < MaxTime
    /\ now' = now + 1
    /\ redis' = [k \in {j \in DOMAIN redis : now + 1 < redis[j].expire_at}
                   |-> redis[k]]
    /\ lastOp' = NoOp
    /\ UNCHANGED <<cache_enabled, redis_client, memory_cache,
                   request_count, started, req>>

Next ==
    \/ \E r \in Slots : EmbedText(r)
    \/ \E r \in Slots : EmbedImage(r)
    \/ \E r \in Slots : Probe(r)
    \/ \E r \in Slots : Encode(r)
    \/ \E r \in Slots : Store(r)
    \/ \E r \in Slots : Finish(r)
    \/ Tick

Spec == Init /\ [][Next]_vars

\* The consistency endpoint, one request at a time, the clock standing still
NextConsistency ==
    \/ CheckCharacterConsistency(1)
    \/ Probe(1)
    \/ Encode(1)
    \/ Store(1)
    \/ Finish(1)

SpecConsistency == Init /\ [][NextConsistency]_vars

\* The batch endpoint, one request at a time, the clock standing still
NextBatch ==
    \/ EmbedBatch(1)
    \/ Probe(1)
    \/ Encode(1)
    \/ EncodeTexts(1)
    \/ Store(1)
    \/ Finish(1)

SpecBatch == Init /\ [][NextBatch]_vars

\* The batch endpoint after single-text requests have filled the cache
NextTextBatch ==
    \/ EmbedText(1)
    \/ EmbedBatch(1)
    \/ Probe(1)
    \/ Encode(1)
    \/ EncodeTexts(1)
    \/ Store(1)
    \/ Finish(1)

SpecTextBatch == Init /\ [][NextTextBatch]_vars

\* The similarity and search endpoints, which touch neither cache nor model
NextSimilarity ==
    \/ CalculateSimilarity(1)
    \/ SearchSimilar(1)
    \/ Finish(1)

SpecSimilarity == Init /\ [][NextSimilarity]_vars

----------------------------------------------------------------------------
\* Properties of the cache

\* The step just taken was put(k, v) and the one before it get/put
JustPut == lastOp.op = "put"
JustGot == lastOp.op = "get"
Occupancy(memory) == Cardinality(DOMAIN memory)

\* get(k) ran as the very next step after put(k, v)
GetRightAfterPut ==
    /\ JustGot
    /\ lastOp.prev.op = "put"
    /\ lastOp.prev.key = lastOp.key

\* C1, as claimed: put(k, v, ttl) followed immediately by get(k) returns v,
\* in every reachable cache state, with or without Redis (stated here for
\* the runs in which no Redis call raises).
C1_RoundTripAlways ==
    (GetRightAfterPut /\ ~lastOp.prev.redis_failed /\ ~lastOp.redis_failed)
        => lastOp.result = lastOp.prev.vec

\* The put reached a tier that the get answers from: Redis, when it is
\* configured and neither call raised; the memory cache, when there is no
\* Redis and the memory cache was below its size limit at the put
PutAdmitted ==
    \/ redis_client /\ ~lastOp.prev.redis_failed /\ ~lastOp.redis_failed
    \/ ~redis_client /\ lastOp.prev.mem_len < max_memory_cache_size

\* C1, amended: put(k, v, ttl) followed immediately by get(k) returns a
\* vector equal to v whenever the put was admitted (PutAdmitted).
C1_RoundTripAdmitted ==
    (GetRightAfterPut /\ PutAdmitted) => lastOp.result = lastOp.prev.vec

C1_Witness ==
    /\ GetRightAfterPut
    /\ redis_client
    /\ PutAdmitted
    /\ lastOp.prev.vec \in Vectors
    /\ lastOp.result = lastOp.prev.vec

\* C2: put inserts into the memory cache only when its occupancy is strictly
\* below max_memory_cache_size; at capacity the memory cache is left exactly
\* as it was (nothing added, nothing evicted), the request goes on without
\* error, and the Redis write of the same put is made all the same.
C2_FastTierAdmission ==
    JustPut =>
        /\ memory_cache # lastOp.mem_before
              => Occupancy(lastOp.mem_before) < max_memory_cache_size
        /\ Occupancy(lastOp.mem_before) >= max_memory_cache_size
              => /\ memory_cache = lastOp.mem_before
                 /\ req[lastOp.slot].resp.status = 200
                 /\ (redis_client /\ ~lastOp.redis_failed)
                       => /\ lastOp.key \in DOMAIN redis
                          /\ redis[lastOp.key].bytes = tobytes(lastOp.vec)
                          /\ redis[lastOp.key].expire_at = now + cache_ttl

C2_Witness ==
    /\ JustPut
    /\ Occupancy(lastOp.mem_before) >= max_memory_cache_size
    /\ lastOp.key \notin DOMAIN lastOp.mem_before
    /\ lastOp.key \notin DOMAIN memory_cache
    /\ redis_client
    /\ lastOp.key \in DOMAIN redis
    /\ lastOp.key \notin DOMAIN lastOp.redis_before

\* Redis answered the get of the step just taken with a value for the key
RedisHeld ==
    /\ JustGot
    /\ redis_client
    /\ ~lastOp.redis_failed
    /\ lastOp.key \in DOMAIN redis
    /\ now < redis[lastOp.key].expire_at

\* C3: get(k) asks Redis first; when Redis holds a value for k, the vector
\* encoded by that value is the result, whatever the memory cache holds for
\* k, and the memory cache is neither consulted nor changed (an expired
\* entry stays).
C3_DurableFirst ==
    RedisHeld =>
        /\ lastOp.result # NoVec
        /\ tobytes(lastOp.result) = redis[lastOp.key].bytes
        /\ memory_cache = lastOp.mem_before

\* Redis holds k while the memory cache holds another vector for k
C3_Witness ==
    /\ RedisHeld
    /\ lastOp.key \in DOMAIN memory_cache
    /\ memory_cache[lastOp.key].data # lastOp.result

\* Redis holds k while the memory cache's entry for k has expired
C3_WitnessExpired ==
    /\ RedisHeld
    /\ lastOp.key \in DOMAIN memory_cache
    /\ now - memory_cache[lastOp.key].timestamp >= cache_ttl

\* The get of the step just taken reached the memory cache and found k there
ReachedMemoryEntry ==
    /\ JustGot
    /\ ~(redis_client /\ lastOp.redis_failed)
    /\ ~RedisHeld
    /\ lastOp.key \in DOMAIN lastOp.mem_before

\* C4: when get(k) reaches the memory cache and finds an entry, it returns
\* the entry's vector and keeps the entry if now - timestamp < cache_ttl;
\* otherwise it returns nothing and the entry is gone from the memory cache.
C4_FastTierExpiry ==
    ReachedMemoryEntry =>
        LET entry == lastOp.mem_before[lastOp.key]
        IN  IF now - entry.timestamp < cache_ttl
            THEN /\ lastOp.result = entry.data
                 /\ memory_cache = lastOp.mem_before
            ELSE /\ lastOp.result = NoVec
                 /\ lastOp.key \notin DOMAIN memory_cache
                 /\ \A k \in (DOMAIN lastOp.mem_before) \ {lastOp.key} :
                        /\ k \in DOMAIN memory_cache
                        /\ memory_cache[k] = lastOp.mem_before[k]

C4_Witness ==
    /\ ReachedMemoryEntry
    /\ now - lastOp.mem_before[lastOp.key].timestamp = cache_ttl
    /\ lastOp.result = NoVec
    /\ lastOp.key \notin DOMAIN memory_cache

SingleEncode(q) == q.op \in {"embed_text", "embed_image"}

CacheEvents(q) ==
    {n \in 1..Len(q.trace) : q.trace[n].ev \in {"hit", "miss", "store"}}

\* C5: a Redis failure during get or put never reaches the caller: the get
\* is a miss and the request goes on to the Oracle, the put changes neither
\* tier and the request still answers 200; a single encode all of whose
\* Redis calls fail answers 200 with the Oracle's vector.
C5_FailSoft ==
    /\ (JustGot /\ lastOp.redis_failed)
          => /\ lastOp.result = NoVec
             /\ memory_cache = lastOp.mem_before
             /\ req[lastOp.slot].pc = "encode"
    /\ (JustPut /\ lastOp.redis_failed)
          => /\ redis = lastOp.redis_before
             /\ memory_cache = lastOp.mem_before
             /\ req[lastOp.slot].resp.status = 200
    /\ \A r \in Slots :
          LET q == req[r]
          IN  (/\ q.pc = "done"
               /\ SingleEncode(q)
               /\ \A n \in CacheEvents(q) : q.trace[n].failed
               /\ \A n \in 1..Len(q.trace) : q.trace[n].ev # "oracle_fail")
              => /\ q.resp.status = 200
                 /\ q.resp.embedding
                      = Oracle(q.items[1].kind, q.items[1].content)

C5_Witness ==
    \E r \in Slots :
        /\ req[r].pc = "done"
        /\ SingleEncode(req[r])
        /\ Len(req[r].trace) = 3
        /\ req[r].trace[1].ev = "miss" /\ req[r].trace[1].failed
        /\ req[r].trace[3].ev = "store" /\ req[r].trace[3].failed
        /\ req[r].resp.status = 200
        /\ req[r].resp.embedding \in Vectors

----------------------------------------------------------------------------
\* Properties of the encode requests

Evs(q) == [n \in 1..Len(q.trace) |-> q.trace[n].ev]

OracleOf(q) == Oracle(q.items[1].kind, q.items[1].content)

\* C6, as claimed: on a miss, once the Oracle has succeeded, the result is
\* written back into both cache tiers before the vector is returned (stated
\* here for the stores whose Redis call does not raise).
C6_WrittenToBothTiers ==
    (JustPut /\ ~lastOp.redis_failed) =>
        /\ lastOp.key \in DOMAIN memory_cache
        /\ memory_cache[lastOp.key].data = lastOp.vec
        /\ redis_client
              => /\ lastOp.key \in DOMAIN redis
                 /\ redis[lastOp.key].bytes = tobytes(lastOp.vec)

\* C6, amended: a single-item encode with caching enabled looks the key up
\* before anything else; on a hit the Oracle is not called and the cached
\* vector is returned; on a miss the Oracle is called exactly once and, when
\* it succeeds, its result is passed to put exactly once before it is
\* returned.  That put writes Redis when Redis is configured and its call
\* does not raise, and writes the memory cache only when the Redis call did
\* not raise and the memory cache is below its size limit; otherwise the
\* tier is left as it was.
C6_ControlFlow ==
    /\ \A r \in Slots :
          LET q == req[r]
          IN  (SingleEncode(q) /\ cache_enabled) =>
                /\ Evs(q) \in {<<>>, <<"hit">>, <<"miss">>,
                               <<"miss", "oracle">>,
                               <<"miss", "oracle_fail">>,
                               <<"miss", "oracle", "store">>}
                /\ (q.pc = "done" /\ q.resp.status = 200)
                      => Evs(q) \in {<<"hit">>, <<"miss", "oracle", "store">>}
                /\ (q.pc = "done" /\ Evs(q) = <<"miss", "oracle", "store">>)
                      => /\ q.resp.status = 200
                         /\ q.resp.embedding = OracleOf(q)
    /\ (JustGot /\ lastOp.result # NoVec)
          => /\ req[lastOp.slot].pc = "done"
             /\ req[lastOp.slot].resp.status = 200
             /\ req[lastOp.slot].resp.embedding = lastOp.result
    /\ JustPut
          => /\ lastOp.vec = OracleOf(req[lastOp.slot])
             /\ req[lastOp.slot].pc = "done"
             /\ req[lastOp.slot].resp.embedding = lastOp.vec
             /\ IF redis_client /\ ~lastOp.redis_failed
                THEN /\ lastOp.key \in DOMAIN redis
                     /\ redis[lastOp.key].bytes = tobytes(lastOp.vec)
                     /\ redis[lastOp.key].expire_at = now + cache_ttl
                ELSE redis = lastOp.redis_before
             /\ IF /\ ~(redis_client /\ lastOp.redis_failed)
                   /\ Occupancy(lastOp.mem_before) < max_memory_cache_size
                THEN /\ lastOp.key \in DOMAIN memory_cache
                     /\ memory_cache[lastOp.key].data = lastOp.vec
                     /\ memory_cache[lastOp.key].timestamp = now
                ELSE memory_cache = lastOp.mem_before

C6_Witness ==
    /\ JustPut
    /\ redis_client
    /\ Evs(req[lastOp.slot]) = <<"miss", "oracle", "store">>
    /\ req[lastOp.slot].resp.status = 200
    /\ lastOp.key \in DOMAIN redis
    /\ lastOp.key \in DOMAIN memory_cache
    /\ lastOp.key \notin DOMAIN lastOp.mem_before
    /\ memory_cache[lastOp.key].data = lastOp.vec

\* Two finished requests for the same content, keyed by the content
SameContentPair(r1, r2) ==
    /\ r1 # r2
    /\ SingleEncode(req[r1]) /\ SingleEncode(req[r2])
    /\ req[r1].pc = "done" /\ req[r2].pc = "done"
    /\ req[r1].resp.status = 200 /\ req[r2].resp.status = 200
    /\ req[r1].items = req[r2].items
    /\ req[r1].items[1].cache_key = NoKey

DerivedKey(item) == item.kind \o ":" \o MD5Hex(item.content)

\* C7: two concurrent requests for the same content are not deduplicated
\* and do no harm: in every interleaving both return the same vector, the
\* Oracle's, and whatever entry a tier holds for the key maps it to that
\* vector, as after a single request.
C7_ConcurrentMissesHarmless ==
    \A r1, r2 \in Slots :
        SameContentPair(r1, r2) =>
            LET v == req[r1].resp.embedding
                k == DerivedKey(req[r1].items[1])
            IN  /\ req[r2].resp.embedding = v
                /\ v = OracleOf(req[r1])
                /\ k \in DOMAIN redis => redis[k].bytes = tobytes(v)
                /\ k \in DOMAIN memory_cache => memory_cache[k].data = v

\* Both requests missed, both called the Oracle, both wrote
C7_Witness ==
    /\ SameContentPair(1, 2)
    /\ Evs(req[1]) = <<"miss", "oracle", "store">>
    /\ Evs(req[2]) = <<"miss", "oracle", "store">>
    /\ ~req[1].trace[3].failed /\ ~req[2].trace[3].failed
    /\ JustPut
    /\ DerivedKey(req[1].items[1]) \in DOMAIN lastOp.mem_before
    /\ DerivedKey(req[1].items[1]) \in DOMAIN memory_cache
    /\ redis_client
    /\ DerivedKey(req[1].items[1]) \in DOMAIN redis

\* C8, as claimed: a put(k, v2) for a key that already has an entry leaves,
\* in each tier, an entry for k holding v2 with a fresh stored-at time
\* (stated here for the puts whose Redis call does not raise).
C8_ReplacedWholesale ==
    (/\ JustPut
     /\ ~lastOp.redis_failed
     /\ lastOp.key \in DOMAIN lastOp.mem_before)
    => /\ lastOp.key \in DOMAIN memory_cache
       /\ memory_cache[lastOp.key].data = lastOp.vec
       /\ memory_cache[lastOp.key].timestamp = now
       /\ redis_client
             => /\ lastOp.key \in DOMAIN redis
                /\ redis[lastOp.key].bytes = tobytes(lastOp.vec)
                /\ redis[lastOp.key].expire_at = now + cache_ttl

----------------------------------------------------------------------------
\* Properties of the consistency check

ConsistencyDone(q) ==
    q.op = "consistency" /\ q.pc = "done" /\ q.resp.status = 200

HasText(q) == q.items[Len(q.items)].kind = "text"

\* C9: the verdict's score is the mean of the per-reference image
\* similarities when no text description is supplied (0 when there is no
\* reference), and 0.7 * mean + 0.3 * text_similarity when one is.
\* Similarities are in 25ths, so with n references of sum S the mean is
\* S / (25 n) and the blend is (7 S + 3 n t) / (250 n).
C9_ConsistencyBlend ==
    \A r \in Slots :
        ConsistencyDone(req[r]) =>
            LET q == req[r]
                v == q.resp
                sc == v.consistency_score
                n == Len(v.image_similarities)
                S == Sum(v.image_similarities)
            IN  /\ sc.den > 0
                /\ n = Len(q.items) - 1 - (IF HasText(q) THEN 1 ELSE 0)
                /\ (v.text_similarity # <<>>) <=> HasText(q)
                /\ IF v.text_similarity = <<>>
                   THEN IF n = 0 THEN sc.num = 0
                        ELSE 25 * n * sc.num = S * sc.den
                   ELSE IF n = 0
                        THEN 250 * sc.num = 3 * v.text_similarity[1] * sc.den
                        ELSE 250 * n * sc.num
                               = (7 * S + 3 * n * v.text_similarity[1]) * sc.den

\* A verdict blending two different image similarities with a text one
C9_Witness ==
    /\ ConsistencyDone(req[1])
    /\ req[1].resp.image_similarities = <<25, 24>>
    /\ req[1].resp.text_similarity = <<15>>
    /\ 500 * req[1].resp.consistency_score.num
          = 433 * req[1].resp.consistency_score.den

\* C10: passed is exactly (score >= threshold), a score equal to the
\* threshold passing, and the verdict's threshold is the request's.
C10_ConsistencyDecision ==
    \A r \in Slots :
        ConsistencyDone(req[r]) =>
            LET sc == req[r].resp.consistency_score
                th == req[r].threshold
            IN  /\ req[r].resp.threshold = th
                /\ req[r].resp.passed
                      <=> (sc.num * th.den >= th.num * sc.den)

\* A score exactly at a non-zero threshold, passing
C10_Witness ==
    /\ ConsistencyDone(req[1])
    /\ req[1].threshold = Frac(24, 25)
    /\ req[1].resp.image_similarities = <<24>>
    /\ req[1].resp.consistency_score.num * 25
          = 24 * req[1].resp.consistency_score.den
    /\ req[1].resp.passed

\* The request's reference sequence is empty
NoReferences(q) == Len(q.items) - 1 - (IF HasText(q) THEN 1 ELSE 0) = 0

OracleFailures(q) ==
    {n \in 1..Len(q.trace) : q.trace[n].ev = "oracle_fail"}

\* C11: a consistency check with no reference image is not an error: unless
\* an encode call fails the verdict is produced, its image_similarities is
\* the empty sequence, and its score is 0 without a text description and
\* 0.3 * text_similarity with one (a proper number, never 0/0).
C11_EmptyReferences ==
    \A r \in Slots :
        LET q == req[r]
            v == q.resp
            sc == v.consistency_score
        IN  (q.op = "consistency" /\ q.pc = "done" /\ NoReferences(q)) =>
                /\ OracleFailures(q) = {} => v.status = 200
                /\ v.status = 200 =>
                      /\ v.image_similarities = <<>>
                      /\ sc.den > 0
                      /\ IF v.text_similarity = <<>>
                         THEN sc.num = 0
                         ELSE 250 * sc.num = 3 * v.text_similarity[1] * sc.den

\* No reference image, a text description: the score is 0.3 * 15/25
C11_Witness ==
    /\ ConsistencyDone(req[1])
    /\ NoReferences(req[1])
    /\ req[1].resp.image_similarities = <<>>
    /\ req[1].resp.text_similarity = <<15>>
    /\ 250 * req[1].resp.consistency_score.num
          = 45 * req[1].resp.consistency_score.den

\* C12: a consistency check is all-or-nothing: once an encode call has
\* failed the check is over with an error and no verdict field is filled in,
\* the failing call is the last thing the request did (no later embedding is
\* asked for) and it was made once (no retry).
C12_AllOrNothing ==
    \A r \in Slots :
        LET q == req[r]
        IN  (q.op = "consistency" /\ OracleFailures(q) # {}) =>
                /\ q.pc = "done"
                /\ q.resp.status = 500
                /\ [q.resp EXCEPT !.status = 0, !.raised = 0] = NoResp
                /\ OracleFailures(q) = {Len(q.trace)}
                /\ \A n \in 1..Len(q.trace) :
                       q.trace[n].i <= q.trace[Len(q.trace)].i
                /\ q.trace[Len(q.trace)].i = q.i

\* The generated image was embedded, a reference failed, and a further
\* reference and the text were never asked for
C12_Witness ==
    /\ req[1].op = "consistency"
    /\ req[1].pc = "done"
    /\ Len(req[1].items) = 4
    /\ HasText(req[1])
    /\ OracleFailures(req[1]) # {}
    /\ req[1].trace[Len(req[1].trace)].i = 2
    /\ \E n \in 1..Len(req[1].trace) :
          req[1].trace[n].i = 1 /\ req[1].trace[n].ev = "oracle"
    /\ req[1].resp.status = 500

----------------------------------------------------------------------------
\* Properties of the batch endpoint

BatchDone(q) ==
    q.op \in {"batch_text", "batch_image"} /\ q.pc = "done"
        /\ q.resp.status = 200

\* Item i of the request was answered from the cache
HitAt(q, i) ==
    \E n \in 1..Len(q.trace) : q.trace[n].i = i /\ q.trace[n].ev = "hit"

EmbedsInput(q, i) ==
    /\ Decodable(q.items[i])
    /\ q.resp.embeddings[i] = Oracle(q.items[i].kind, q.items[i].content)

\* C13, as claimed: for every batch, in every cache state, the output has
\* the input's length and output index i is the embedding of input index i.
C13_OutputEmbedsInput ==
    \A r \in Slots :
        BatchDone(req[r]) =>
            /\ Len(req[r].resp.embeddings) = Len(req[r].items)
            /\ \A i \in 1..Len(req[r].items) :
                  Decodable(req[r].items[i]) => EmbedsInput(req[r], i)

\* C13, amended: the output has the input's length and output index i is
\* what the encode of input index i returned: the embedding of input i when
\* the item missed the cache or the cache was not consulted (every item of
\* a text batch), else the vector cached under the item's key.  That vector
\* is the embedding of input i for an item keyed by its content (no caller
\* key in use equals a derived key); under a caller-supplied cache_key it
\* is whatever was stored under that key.
C13_BatchOrder ==
    \A r \in Slots :
        LET q == req[r]
        IN  BatchDone(q) =>
                /\ Len(q.resp.embeddings) = Len(q.items)
                /\ \A i \in 1..Len(q.items) :
                      /\ HitAt(q, i) \/ EmbedsInput(q, i)
                      /\ q.items[i].cache_key = NoKey => EmbedsInput(q, i)
                      /\ HitAt(q, i) => q.op = "batch_image" /\ cache_enabled

\* Two different images, the first answered from the cache and the second
\* by the Oracle
C13_Witness ==
    /\ BatchDone(req[1])
    /\ Len(req[1].items) = 2
    /\ req[1].items[1].content # req[1].items[2].content
    /\ HitAt(req[1], 1)
    /\ ~HitAt(req[1], 2)
    /\ req[1].resp.embeddings = <<<<3, 4>>, <<4, 3>>>>

\* C14: a batch request whose batch_type is neither text nor image is
\* refused at once with a client-side status, and nothing is done for it:
\* no cache lookup, no encode, no cache write, no count.
C14_UnknownBatchKind ==
    /\ [](\A r \in Slots :
            req[r].op = "batch_video" =>
                /\ req[r].pc = "done"
                /\ req[r].resp.status \in 400..499
                /\ req[r].trace = <<>>
                /\ req[r].embs = <<>>
                /\ req[r].resp.embeddings = <<>>)
    /\ [][\A r \in Slots :
            (req[r].op # "batch_video" /\ req'[r].op = "batch_video")
                => UNCHANGED <<redis, memory_cache, request_count>>]_vars

\* Refused while the caches hold entries
C14_Witness ==
    /\ req[1].op = "batch_video"
    /\ req[1].resp.status = 422
    /\ memory_cache # <<>>
    /\ redis # <<>>

\* C15, as claimed: malformed input (an undecodable image, an unknown batch
\* kind) is answered with a client-side status and a failure of the Oracle
\* with a server-side one, so the two never look the same to the caller.
C15_ErrorKindsDistinct ==
    \A r \in Slots :
        LET q == req[r]
        IN  /\ q.op = "batch_video" => q.resp.status \in 400..499
            /\ (q.pc = "done" /\ q.trace # <<>>) =>
                  /\ q.trace[Len(q.trace)].ev = "bad_input"
                        => q.resp.status \in 400..499
                  /\ q.trace[Len(q.trace)].ev = "oracle_fail"
                        => q.resp.status \in 500..599

----------------------------------------------------------------------------
\* Properties of the similarity and search endpoints

SearchDone(q) == q.op = "search" /\ q.pc = "done"
SimilarityDone(q) == q.op = "similarity" /\ q.pc = "done"
Query(q) == q.items[1]
Candidates(q) == Tail(q.items)

Min(a, b) == IF a < b THEN a ELSE b

\* Two floats that are the same number
FloatEqual(x, y) == ~x.nan /\ ~y.nan /\ ~FloatLess(x, y) /\ ~FloatLess(y, x)

\* Every vector of the search has the query's length and a non-zero norm
ProperSearch(q) ==
    /\ NormSq(Query(q)) > 0
    /\ \A n \in 1..Len(Candidates(q)) :
          /\ Len(Candidates(q)[n]) = Len(Query(q))
          /\ NormSq(Candidates(q)[n]) > 0

\* C16: the results of a search are sorted by descending similarity,
\* candidates of equal similarity by ascending original index; there are
\* min(k, len(candidates)) of them, each carrying the original index of its
\* candidate and that candidate's similarity, and no candidate left out
\* ranks before one that is returned.
C16_Ranking ==
    \A r \in Slots :
        LET q == req[r]
            res == q.resp.results
            rows == Rows(Query(q), Candidates(q))
            Before(x, y) ==
                \/ FloatLess(y.similarity, x.similarity)
                \/ /\ FloatEqual(x.similarity, y.similarity)
                   /\ x.index < y.index
        IN  (SearchDone(q) /\ q.resp.status = 200 /\ ProperSearch(q)) =>
                /\ Len(res) = Min(q.top_k, Len(rows))
                /\ \A n \in 1..Len(res) :
                      /\ res[n].index \in 0..(Len(rows) - 1)
                      /\ res[n] = rows[res[n].index + 1]
                /\ \A n, m \in 1..Len(res) : n < m => Before(res[n], res[m])
                /\ \A j \in 1..Len(rows) :
                      (\A n \in 1..Len(res) : res[n].index # j - 1)
                          => \A n \in 1..Len(res) : Before(res[n], rows[j])

\* The first and third candidates are the query's own vector and tie; the
\* earlier one comes first, then the third, and the second candidate, at
\* similarity 1/sqrt(2), is cut off
C16_Witness ==
    /\ SearchDone(req[1])
    /\ Query(req[1]) = <<-1, 1>>
    /\ Candidates(req[1]) = <<<<-1, 1>>, <<0, 1>>, <<-1, 1>>>>
    /\ req[1].top_k = 2
    /\ req[1].resp.results = <<[index |-> 0, similarity |-> Float(2, 4)],
                               [index |-> 2, similarity |-> Float(2, 4)]>>

Clamp(k, lo, hi) == IF k < lo THEN lo ELSE IF k > hi THEN hi ELSE k

\* C17, as claimed: for any requested k, below 1 and above 100 included,
\* the search returns min(clamp(k, 1, 100), len(candidates)) results.
C17_TopKClamped ==
    \A r \in Slots :
        (SearchDone(req[r]) /\ ProperSearch(req[r])) =>
            /\ req[r].resp.status = 200
            /\ Len(req[r].resp.results)
                  = Min(Clamp(req[r].top_k, 1, 100), Len(Candidates(req[r])))

\* C17, amended: a search with k in [1, 100] returns min(k, len(candidates))
\* results, all of them when k is larger than their number; a search with
\* k below 1 or above 100 is refused as invalid and returns no result.
C17_TopKRange ==
    \A r \in Slots :
        LET q == req[r]
        IN  SearchDone(q) =>
                IF 1 <= q.top_k /\ q.top_k <= 100
                THEN /\ q.resp.status # 422
                     /\ ProperSearch(q) => q.resp.status = 200
                     /\ q.resp.status = 200 =>
                           Len(q.resp.results)
                              = Min(q.top_k, Len(Candidates(q)))
                ELSE /\ q.resp.status = 422
                     /\ q.resp.results = <<>>

\* k = 100 with three candidates: all three are returned
C17_Witness ==
    /\ SearchDone(req[1])
    /\ req[1].top_k = 100
    /\ Len(Candidates(req[1])) = 3
    /\ Len(req[1].resp.results) = 3

\* C18: two vectors of different length are never compared: /similarity
\* fails with the error of the dot product, and so does /search when any
\* candidate's length differs from the query's; a similarity that is
\* returned was computed from two whole vectors of the same length.
C18_DimensionMismatch ==
    \A r \in Slots :
        LET q == req[r]
        IN  /\ SimilarityDone(q) =>
                  IF Len(q.items[1]) # Len(q.items[2])
                  THEN q.resp.status = 500 /\ q.resp.similarity = <<>>
                  ELSE q.resp.status = 200 =>
                          q.resp.similarity
                             = <<CosineSimilarity(q.items[1], q.items[2]).value>>
            /\ (SearchDone(q) /\ q.resp.status # 422) =>
                  IF \E n \in 1..Len(Candidates(q)) :
                         Len(Candidates(q)[n]) # Len(Query(q))
                  THEN q.resp.status = 500 /\ q.resp.results = <<>>
                  ELSE \A n \in 1..Len(q.resp.results) :
                          q.resp.results[n].similarity =
                             CosineSimilarity(Query(q),
                                Candidates(q)[q.resp.results[n].index + 1]).value

\* A two-component and a three-component vector sharing their first two
\* components
C18_Witness ==
    /\ SimilarityDone(req[1])
    /\ req[1].items = <<<<1, 0>>, <<1, 0, 0>>>>
    /\ req[1].resp.status = 500
    /\ req[1].resp.similarity = <<>>

\* C19, as claimed: a vector of zero norm among the inputs of /similarity,
\* or as the query or a candidate of /search, makes the request fail with
\* a client-side error, and no similarity is returned.
C19_ZeroNormRejected ==
    \A r \in Slots :
        LET q == req[r]
        IN  /\ (/\ SimilarityDone(q)
                 /\ \E n \in 1..2 : NormSq(q.items[n]) = 0)
                  => /\ q.resp.status \in 400..499
                     /\ q.resp.similarity = <<>>
            /\ (/\ SearchDone(q)
                 /\ \E n \in 1..Len(q.items) : NormSq(q.items[n]) = 0)
                  => /\ q.resp.status \in 400..499
                     /\ q.resp.results = <<>>

----------------------------------------------------------------------------
\* Properties of the key derivation

\* Request q is past the derivation of the key of an item that came
\* without a key of the caller
HoldsDerivedKey(q) ==
    /\ q.op \in {"embed_text", "embed_image"}
    /\ q.pc \in {"probe", "encode", "store"}
    /\ cache_enabled
    /\ q.items[q.i].cache_key = NoKey

\* C20: the derived key is the namespace, a colon and the hexadecimal MD5
\* digest of the content, whatever the state of the service and of its
\* caches when it is derived, so that two derivations for the same content
\* and namespace agree; the step that derives it changes neither cache
\* tier, nor the cache switches, nor the request counter.
C20_KeyDerivationPure ==
    /\ [](\A r \in Slots :
            HoldsDerivedKey(req[r]) =>
                req[r].key = DerivedKey(req[r].items[req[r].i]))
    /\ [](\A r, s \in Slots :
            (/\ HoldsDerivedKey(req[r]) /\ HoldsDerivedKey(req[s])
             /\ req[r].items[req[r].i].kind = req[s].items[req[s].i].kind
             /\ req[r].items[req[r].i].content
                   = req[s].items[req[s].i].content)
                => req[r].key = req[s].key)
    /\ [][\A r \in Slots :
            (req[r].pc = "idle" /\ req'[r].pc = "probe")
                => UNCHANGED <<cache_enabled, redis_client, redis,
                               memory_cache, request_count, now>>]_vars

\* Two requests for the same image: the key of the first was derived on an
\* empty cache, the key of the second after the first had encoded the
\* image and filled both tiers
C20_Witness ==
    /\ HoldsDerivedKey(req[1]) /\ HoldsDerivedKey(req[2])
    /\ req[1].items[1] = Item("image", "a", NoKey)
    /\ req[2].items[1] = Item("image", "a", NoKey)
    /\ req[1].pc = "store" /\ req[2].pc = "probe"
    /\ request_count > 0
    /\ req[1].key = "image:0cc175b9c0f1b6a831c399e269772661"
    /\ req[2].key = req[1].key

----------------------------------------------------------------------------
\* Properties of the order of work inside a batch

ImageBatch(q) == q.op = "batch_image"
TextBatch(q) == q.op = "batch_text"

\* The event ends the work on its item: a hit, the store after a miss, or
\* the encode itself when the service runs without cache
ClosesItem(e) ==
    \/ e.ev = "hit"
    \/ e.ev = "store"
    \/ e.ev = "oracle" /\ ~cache_enabled

\* C21: an image batch is worked through one item after the other, in
\* input order: the lookup of item i+1 begins only after the lookup of
\* item i and, on a miss, its encode and its store have completed, the
\* steps of one item come in the order lookup, encode, store, and while
\* item i is in work exactly the embeddings of items 1..i-1 have been
\* appended to the result.
C21_SequentialImages ==
    \A r \in Slots :
        LET q == req[r]
            t == q.trace
        IN  ImageBatch(q) =>
              /\ \A n \in 1..Len(t) :
                    /\ t[n].i \in 1..Len(q.items)
                    /\ (n = 1 \/ t[n - 1].i # t[n].i) =>
                          /\ t[n].i = IF n = 1 THEN 1 ELSE t[n - 1].i + 1
                          /\ n > 1 => ClosesItem(t[n - 1])
                          /\ cache_enabled => t[n].ev \in {"hit", "miss"}
                    /\ (n > 1 /\ t[n - 1].i = t[n].i) =>
                          \/ /\ t[n - 1].ev = "miss"
                             /\ t[n].ev \in {"oracle", "oracle_fail",
                                              "bad_input"}
                          \/ /\ t[n - 1].ev = "oracle" /\ cache_enabled
                             /\ t[n].ev = "store"
              /\ q.pc \in {"probe", "encode", "store"} =>
                    /\ Len(q.embs) = q.i - 1
                    /\ \A n \in 1..Len(t) :
                          t[n].i < q.i \/ (t[n].i = q.i /\ ~ClosesItem(t[n]))
              /\ (q.pc = "done" /\ q.resp.status = 200) =>
                    /\ Len(q.resp.embeddings) = Len(q.items)
                    /\ \A i \in 1..Len(q.items) :
                          \E n \in 1..Len(t) : t[n].i = i /\ ClosesItem(t[n])

\* Two images, both missed, encoded and stored, the second after the first
C21_Witness ==
    /\ ImageBatch(req[1]) /\ req[1].pc = "done"
    /\ req[1].resp.status = 200
    /\ Len(req[1].items) = 2
    /\ [n \in 1..Len(req[1].trace) |->
           <<req[1].trace[n].i, req[1].trace[n].ev>>]
         = << <<1, "miss">>, <<1, "oracle">>, <<1, "store">>,
              <<2, "miss">>, <<2, "oracle">>, <<2, "store">> >>

\* The key encode_text derives for the text when it is sent alone
SingleTextKey(item) == "text:" \o MD5Hex(item.content)

\* A usable entry for the key in one of the tiers
Cached(key) ==
    \/ key \in DOMAIN redis /\ now < redis[key].expire_at
    \/ /\ key \in DOMAIN memory_cache
       /\ now - memory_cache[key].timestamp < cache_ttl

\* C22: a text batch makes exactly one call of the model, for all its
\* texts in input order, and touches the cache neither before nor after
\* it, whether or not the key of one of its texts is cached: no lookup and
\* no store appear among its steps, and no step taken while it is in
\* flight changes either tier.
C22_TextBatchBypassesCache ==
    /\ [](\A r \in Slots :
            LET q == req[r]
            IN  TextBatch(q) =>
                  /\ q.pc = "encode_texts" => q.trace = <<>>
                  /\ q.pc = "done" =>
                        /\ Len(q.trace) = 1
                        /\ q.trace[1].ev \in {"oracle", "oracle_fail"}
                        /\ q.resp.status = 200 <=> q.trace[1].ev = "oracle"
                  /\ (q.pc = "done" /\ q.resp.status = 200) =>
                        q.resp.embeddings =
                           [k \in 1..Len(q.items) |->
                               Oracle("text", q.items[k].content)])
    /\ [][\A r \in Slots :
            (TextBatch(req'[r]) /\ req'[r] # req[r])
                => /\ UNCHANGED <<redis, memory_cache>>
                   /\ lastOp'.op = "none"]_vars

\* A batch of two texts answered while the key of its first text is cached
C22_Witness ==
    /\ TextBatch(req[1]) /\ req[1].pc = "done"
    /\ req[1].resp.status = 200
    /\ Len(req[1].items) = 2
    /\ Cached(SingleTextKey(req[1].items[1]))
    /\ req[1].resp.embeddings = <<<<5, 0>>, <<0, 5>>>>

----------------------------------------------------------------------------
\* Further properties of the cache

\* C23: the memory cache never holds more than max_memory_cache_size
\* entries, in any state reached by any interleaving of the requests; the
\* size test and the insertion are one step of _store_in_cache.
C23_FastTierCapacity == Occupancy(memory_cache) <= max_memory_cache_size

\* A put for a key that is not in the full memory cache has just run while
\* another request was in flight, and was not admitted
C23_Witness ==
    /\ JustPut /\ ~lastOp.redis_failed
    /\ Occupancy(lastOp.mem_before) = max_memory_cache_size
    /\ lastOp.key \notin DOMAIN lastOp.mem_before
    /\ Occupancy(memory_cache) = max_memory_cache_size
    /\ \E r \in Slots : r # lastOp.slot /\ req[r].pc \in {"encode", "store"}

\* The memory cache held an entry for the key, not yet expired, when the
\* get of the step just taken began
FastTierHeld ==
    /\ lastOp.key \in DOMAIN lastOp.mem_before
    /\ now - lastOp.mem_before[lastOp.key].timestamp < cache_ttl

\* C24: when the Redis call of a get raises, the get is a miss and the
\* memory cache is neither read nor changed, even if it holds an unexpired
\* entry for the key (and an expired one is not removed); when the Redis
\* call of a put raises, the memory cache is not written.
C24_DurableFailureShortCircuits ==
    /\ (JustGot /\ lastOp.redis_failed)
          => /\ lastOp.result = NoVec
             /\ memory_cache = lastOp.mem_before
             /\ FastTierHeld => req[lastOp.slot].pc = "encode"
    /\ (JustPut /\ lastOp.redis_failed)
          => /\ memory_cache = lastOp.mem_before
             /\ Occupancy(lastOp.mem_before) < max_memory_cache_size
                   => \/ lastOp.key \notin DOMAIN memory_cache
                      \/ memory_cache[lastOp.key]
                            = lastOp.mem_before[lastOp.key]

\* A get whose Redis call raised while the memory cache held the answer
C24_Witness ==
    /\ JustGot /\ lastOp.redis_failed
    /\ FastTierHeld
    /\ lastOp.result = NoVec
    /\ req[lastOp.slot].pc = "encode"

\* A put whose Redis call raised while the memory cache had room
C24_WitnessPut ==
    /\ JustPut /\ lastOp.redis_failed
    /\ Occupancy(lastOp.mem_before) < max_memory_cache_size
    /\ lastOp.key \notin DOMAIN memory_cache

----------------------------------------------------------------------------
\* Properties of a failed encode

\* The request ended because the model's forward pass raised
OracleFailed(q) ==
    /\ q.pc = "done"
    /\ q.trace # <<>>
    /\ q.trace[Len(q.trace)].ev = "oracle_fail"

\* The lookup that preceded the failed encode went through both tiers and
\* found nothing (its Redis call did not raise)
LookupFoundNothing(q) ==
    /\ Len(q.trace) >= 2
    /\ q.trace[Len(q.trace) - 1].ev = "miss"
    /\ ~q.trace[Len(q.trace) - 1].failed

\* The lookup of the request that comes next for the same key is a miss
NextLookupMisses(key) ==
    \A redis_fails \in RedisOutcomes :
        _get_from_cache(key, redis_fails).result = NoVec

\* The step is an encode that raises
FailingEncode(r) ==
    /\ req[r].pc \in {"encode", "encode_texts"}
    /\ req'[r].pc = "done"
    /\ req'[r].trace # <<>>
    /\ req'[r].trace[Len(req'[r].trace)].ev = "oracle_fail"

\* C25: the encode that raises ends the request with an error and no
\* embedding, and changes neither cache tier nor the request counter; the
\* key that the request's lookup did not find is still absent when the
\* request ends, so that the next request for the same content misses
\* again and goes to the model (stated for the lookups whose Redis call
\* does not raise: one that raises is a miss whatever the cache holds).
C25_FailedOracleWritesNothing ==
    /\ [](\A r \in Slots :
            OracleFailed(req[r]) =>
                /\ req[r].resp.status = 500
                /\ req[r].resp.embedding = NoVec
                /\ req[r].resp.embeddings = <<>>
                /\ (cache_enabled /\ req[r].key # NoKey
                      /\ LookupFoundNothing(req[r]))
                        => NextLookupMisses(req[r].key))
    /\ [][\A r \in Slots :
            FailingEncode(r)
                => UNCHANGED <<redis, memory_cache, request_count>>]_vars

\* A single text whose lookup found nothing in a cache that holds other
\* entries, and whose encode then failed
C25_Witness ==
    /\ OracleFailed(req[1])
    /\ req[1].op = "embed_text"
    /\ cache_enabled /\ redis_client
    /\ LookupFoundNothing(req[1])
    /\ redis # <<>>
    /\ request_count > 0
    /\ req[1].key \notin DOMAIN redis
    /\ req[1].key \notin DOMAIN memory_cache

----------------------------------------------------------------------------
\* Properties of a key given by the caller

\* The request's current item came with a cache_key
CallerKeyed(q) ==
    /\ q.op \in {"embed_text", "embed_image"}
    /\ q.items[1].cache_key # NoKey

\* What a tier held for the key, still alive, when the step just taken
\* began: Redis is asked first
RedisLiveBefore ==
    /\ redis_client
    /\ lastOp.key \in DOMAIN lastOp.redis_before
    /\ now < lastOp.redis_before[lastOp.key].expire_at

MemoryLiveBefore ==
    /\ lastOp.key \in DOMAIN lastOp.mem_before
    /\ now - lastOp.mem_before[lastOp.key].timestamp < cache_ttl

CachedBefore ==
    IF RedisLiveBefore
    THEN frombuffer(lastOp.redis_before[lastOp.key].bytes)
    ELSE IF MemoryLiveBefore THEN lastOp.mem_before[lastOp.key].data
    ELSE NoVec

\* C26: a cache_key given by the caller is the key of the lookup and of
\* the store as it stands, without namespace, for a single text and for an
\* image; a request whose cache_key has a live entry is answered with the
\* vector of that entry and the model is not called, whatever the
\* request's content and whether it is a text or an image (stated for the
\* lookups whose Redis call does not raise).
C26_CallerKeyVerbatim ==
    /\ \A r \in Slots :
          (CallerKeyed(req[r]) /\ cache_enabled
             /\ req[r].pc \in {"probe", "encode", "store"})
              => req[r].key = req[r].items[1].cache_key
    /\ (lastOp.op \in {"get", "put"} /\ CallerKeyed(req[lastOp.slot]))
          => lastOp.key = req[lastOp.slot].items[1].cache_key
    /\ (/\ JustGot /\ ~lastOp.redis_failed
         /\ CallerKeyed(req[lastOp.slot])
         /\ CachedBefore # NoVec)
          => /\ lastOp.result = CachedBefore
             /\ req[lastOp.slot].pc = "done"
             /\ req[lastOp.slot].resp.status = 200
             /\ req[lastOp.slot].resp.embedding = CachedBefore
             /\ Evs(req[lastOp.slot]) = <<"hit">>

\* An image request carrying the cache_key under which a text's vector was
\* cached is answered with the text's vector
C26_Witness ==
    /\ JustGot /\ ~lastOp.redis_failed
    /\ req[lastOp.slot].op = "embed_image"
    /\ req[lastOp.slot].items[1] = Item("image", "a", "ck")
    /\ lastOp.key = "ck"
    /\ CachedBefore = Oracle("text", "a")
    /\ req[lastOp.slot].pc = "done"
    /\ req[lastOp.slot].resp.embedding = Oracle("text", "a")
    /\ req[lastOp.slot].resp.embedding # Oracle("image", "a")

====
